---- MODULE Spec2Model ----
(***************************************************************************)
(* BatterySitter: the monitoring loop of battery_sitter.py, its override   *)
(* commands, the periodic reconnect, and the shutdown paths of run.py and  *)
(* of the direct entry point (battery_sitter.main).                        *)
(*                                                                         *)
(* One action is one step of an asyncio task: the code between two awaits. *)
(* The interpreter is assumed to be Python >= 3.8, where a task            *)
(* cancellation (CancelledError) is not an Exception and so passes the     *)
(* `except Exception` clauses of the program.                              *)
(*                                                                         *)
(* Time is counted in hours.                                               *)
(***************************************************************************)
EXTENDS Integers, Sequences, FiniteSets, TLC

\* ---------------------------------------------------------------- bounds
\* The wall clock stops advancing at MaxTime hours.
MaxTime == 9

\* ------------------------------------------------------ program constants
\* self.reconnect_interval = timedelta(hours=8)
reconnect_interval == 8

\* Values of config['sigenergy']['charging_power'] tried (kW); 1 is also the
\* default power_kw of set_instant_manual_charge.
ChargingPowers == {1, 3}

\* The entry points: run.py (no signal handler of its own) and
\* battery_sitter.main (installs signal_handler for SIGINT and SIGTERM).
Modes == {"runpy", "direct"}

\* ------------------------------------------------------------ value model
\* A Python value as far as isinstance() and the comparison with 0 see it:
\* its type and, for the numeric types, its value (True is 1, False is 0).
PyVal(t, n) == [type |-> t, num |-> n]

NA == PyVal("str", 0)

\* The local variables of a tick before the tick has assigned them.
Unset == PyVal("unset", 0)

\* Values the cloud may report under 'batteryPower'.
PowerValues ==
    { PyVal("int", n) : n \in {-500, 0, 500} }
        \cup { PyVal("float", n) : n \in {-1, 1} }
        \cup { PyVal("bool", n) : n \in {0, 1} }
        \cup { PyVal("str", 0), PyVal("NoneType", 0) }

\* What sigen.get_energy_flow() can do: raise, return None, return a dict
\* without the key, or return a dict with the key.
EnergyFlows ==
    { [kind |-> "raise", power |-> NA], [kind |-> "None", power |-> NA],
      [kind |-> "nokey", power |-> NA] }
        \cup { [kind |-> "dict", power |-> v] : v \in PowerValues }

ZappiStatuses == {"Charging", "Boosting", "Paused", "Completed"}
PlugStatuses == {"Charging", "EV Connected"}

\* What zappi.refresh() can do: raise, or leave the two status fields set.
ZappiReads ==
    { [kind |-> "raise", status |-> "Paused", plug_status |-> "EV Connected"] }
        \cup { [kind |-> "ok", status |-> s, plug_status |-> p] :
                 s \in ZappiStatuses, p \in PlugStatuses }

VARIABLES
    \* BatterySitter's fields
    is_charging, manual_charge_enabled, running, last_connection_time,
    charging_power,
    \* the main task: its position and the locals of the current tick
    pc, zappi_charging, battery_power,
    \* the process: entry point, event loop, the signal handler's task
    mode, loopPhase, sigpc,
    \* the world: clock, the battery cloud
    now, overrideActive, otherCharging,
    \* history: state at the start of the tick, commands issued in the tick,
    \* the last command issued with the circumstances of its issue, and how
    \* the latest EV charging episode began, with the state before it
    tickPrev, tickCmds, issued, episode,
    \* history: what the tick under way has awaited so far and how, how the
    \* tick before it went, and the calls of shutdown() with the ownership
    \* at the moment of the signal
    tickLog, prevTick, sd,
    \* history: the last command whose call returned to this process
    lastOk

vars == << is_charging, manual_charge_enabled, running, last_connection_time,
           charging_power, pc, zappi_charging, battery_power,
           mode, loopPhase, sigpc, now, overrideActive, otherCharging,
           tickPrev, tickCmds, issued, episode, tickLog, prevTick, sd,
           lastOk >>

progVars == << is_charging, manual_charge_enabled, running,
               last_connection_time, charging_power >>
tickVars == << zappi_charging, battery_power >>
procVars == << mode, loopPhase, sigpc >>
worldVars == << now, overrideActive, otherCharging >>
histVars == << tickPrev, tickCmds, issued, episode >>
logVars == << tickLog, prevTick >>

\* ------------------------------------------------------------ pure parts

\* get_zappi_charging_status: the charging test on the refreshed fields,
\* False when refresh raised.
IsActivelyCharging(status, plug_status) ==
    status \in {"Charging", "Boosting"} /\ plug_status = "Charging"

get_zappi_charging_status(r) ==
    IF r.kind = "raise" THEN FALSE
    ELSE IsActivelyCharging(r.status, r.plug_status)

\* get_battery_info answering a failed call with a charging snapshot kept
\* from an earlier tick.
get_battery_info_ReturnsLastReading(r) ==
    IF r.kind \in {"raise", "None"}
    THEN [kind |-> "dict", power |-> PyVal("int", 500)]
    ELSE r

\* get_battery_info: {} when the call raised or returned None; the result
\* is the dict, here reduced to whether it has 'batteryPower' and its value.
get_battery_info(r) ==
    IF r.kind \in {"raise", "None"}
    THEN [kind |-> "nokey", power |-> NA]
    ELSE r

\* battery_info.get('batteryPower', 'N/A')
BatteryPowerOf(info) == IF info.kind = "dict" THEN info.power ELSE NA

\* isinstance(v, (int, float)): bool is a subclass of int.
IsIntOrFloat(v) == v.type \in {"int", "float", "bool"}

battery_already_charging(bp) == IsIntOrFloat(bp) /\ bp.num > 0

\* EnableCmd with the power left at set_instant_manual_charge's default.
EnableCmd_DefaultPower ==
    [enable |-> TRUE, duration_minutes |-> 30, power_kw |-> 1]

EnableCmd ==
    [enable |-> TRUE, duration_minutes |-> 30, power_kw |-> charging_power]

\* DisableCmd with set_instant_manual_charge's default duration and power.
DisableCmd_Defaults == [enable |-> FALSE, duration_minutes |-> 30, power_kw |-> 1]

DisableCmd == [enable |-> FALSE, duration_minutes |-> 0, power_kw |-> 0]

\* The branch of the if/elif chain of monitor_loop a tick takes.
Branch(zc, ic) ==
    IF zc /\ ~ic THEN "start"
    ELSE IF ~zc /\ ic THEN "stop"
    ELSE IF zc /\ ic THEN "steady"
    ELSE "idle"

\* ReconnectDue with a strict comparison: exactly reconnect_interval after
\* the last connection the reconnect is not yet made.
ReconnectDue_Strict ==
    /\ last_connection_time # -1
    /\ now - last_connection_time > reconnect_interval

ReconnectDue ==
    /\ last_connection_time # -1
    /\ now - last_connection_time >= reconnect_interval

\* ------------------------------------------------------------ the world

\* True when a battery that charges now does so on another agent's account
\* (AI optimizer, timer, user) and not under an override of this process.
ChargingIsForeign == otherCharging /\ ~overrideActive

\* The readings the cloud can give in the current state of the battery:
\* a number above zero only while something charges the battery, and no
\* number at or below zero while another agent charges it. An override of
\* this process may be in force without the battery charging (SOC at 100%).
ReadingPossible(r) ==
    \/ r.kind # "dict"
    \/ r.power.type \notin {"int", "float"}
    \/ /\ r.power.num > 0 => (overrideActive \/ otherCharging)
       /\ r.power.num <= 0 => ~otherCharging

\* The 30-minute override runs out, or the cloud drops it.
OverrideLapses ==
    /\ overrideActive
    /\ overrideActive' = FALSE
    /\ UNCHANGED << now, otherCharging >>
    /\ UNCHANGED << progVars, pc, tickVars, procVars, histVars >>
    /\ UNCHANGED << logVars, sd >>
    /\ UNCHANGED lastOk

OtherAgentToggles ==
    /\ otherCharging' = ~otherCharging
    /\ UNCHANGED << now, overrideActive >>
    /\ UNCHANGED << progVars, pc, tickVars, procVars, histVars >>
    /\ UNCHANGED << logVars, sd >>
    /\ UNCHANGED lastOk

\* An hour passes. The clock is read at the top of a tick and at the end of
\* connect() only, so it is advanced while the main task sleeps or
\* reconnects; the process starts at hour 0.
TimePasses ==
    /\ now < MaxTime
    /\ pc \in {"reconnect", "sleep", "err_sleep"}
    /\ now' = now + 1
    /\ UNCHANGED << overrideActive, otherCharging >>
    /\ UNCHANGED << progVars, pc, tickVars, procVars, histVars >>
    /\ UNCHANGED << logVars, sd >>
    /\ UNCHANGED lastOk

\* What a command does to the cloud when its request completes, and what it
\* may have done when the call raised or was cancelled under way.
CloudAfterSuccess(cmd) == overrideActive' = cmd.enable

CloudAfterAbort(cmd) == overrideActive' \in {overrideActive, cmd.enable}

\* ------------------------------------------------------- the event loop

\* A step of the main task: possible while the loop runs, once more in the
\* iteration in which loop.stop() was called if the signal handler's task
\* has not run yet, and again when asyncio.run drives the cancelled tasks.
MainStep ==
    /\ loopPhase \in {"running", "stopping0", "closing"}
    /\ loopPhase' = IF loopPhase = "stopping0" THEN "stopping1" ELSE loopPhase
    /\ UNCHANGED << mode, sigpc >>

\* ------------------------------------------------------------ histories

IssuedRecord(cmd, who) ==
    [cmd |-> cmd, by |-> who, owned |-> manual_charge_enabled,
     foreign |-> ChargingIsForeign]

NoIssue == [cmd |-> DisableCmd, by |-> "nobody", owned |-> FALSE,
            foreign |-> FALSE]

\* A tick that has awaited nothing yet.
FreshLog == [reconnect |-> "none", zappi |-> "unread", battery |-> "unread"]

\* The tick before the first, and a tick that ended without an error.
NoTick == [outcome |-> "none", zappi_charging |-> FALSE,
           battery_charging |-> FALSE, cmds |-> << >>]

OkTick == [NoTick EXCEPT !.outcome = "ok"]

\* How the tick that ends at pc went; of a tick that ended in `except
\* Exception`, also its charger reading, its battery_already_charging and
\* the commands it issued.
TickSummary ==
    IF pc = "sleep" THEN OkTick
    ELSE [outcome |-> IF tickCmds # << >> THEN "cmd_failed"
                      ELSE "reconnect_failed",
          zappi_charging |-> zappi_charging,
          battery_charging |-> battery_already_charging(battery_power),
          cmds |-> tickCmds]

\* A signal arrives: the ownership at that moment.
SignalSeen ==
    sd' = [sd EXCEPT !.sigOwned =
              IF manual_charge_enabled THEN "owned" ELSE "unowned"]

\* shutdown() is entered, and issues its disable command when the override
\* is ours.
ShutdownEntered ==
    sd' = [sd EXCEPT !.calls = @ + 1,
                     !.cmds = IF manual_charge_enabled THEN @ + 1 ELSE @]

\* set_instant_manual_charge(...) returns its result to the caller.
CommandReturned(cmd) ==
    lastOk' = IF cmd.enable THEN "enable" ELSE "disable"

\* set_instant_manual_charge(...) is called from the tick.
IssueInTick(cmd) ==
    /\ tickCmds' = Append(tickCmds, cmd)
    /\ issued' = IssuedRecord(cmd, "tick")

\* ------------------------------------------------------------ run()

\* await self.connect() of run() succeeds; monitor_loop sets running, finds
\* the reconnect not due and awaits the first charger status.
ConnectOk ==
    /\ pc = "connect"
    /\ MainStep
    /\ last_connection_time' = now
    /\ running' = TRUE
    /\ pc' = "zappi"
    /\ tickPrev' = [is_charging |-> is_charging,
                    manual_charge_enabled |-> manual_charge_enabled]
    /\ tickCmds' = << >>
    /\ UNCHANGED << is_charging, manual_charge_enabled, charging_power >>
    /\ UNCHANGED << tickVars, worldVars, issued, episode >>
    /\ tickLog' = FreshLog
    /\ UNCHANGED << prevTick, sd >>
    /\ UNCHANGED lastOk

\* await self.connect() of run() raises: the finally clause runs
\* shutdown(), which the next step of the main task starts.
ConnectFails ==
    /\ pc = "connect"
    /\ MainStep
    /\ pc' = "fin_shutdown"
    /\ UNCHANGED << progVars, tickVars, worldVars, histVars >>
    /\ UNCHANGED << logVars, sd >>
    /\ UNCHANGED lastOk

\* ------------------------------------------------------------ a tick

\* Wake with the loop left after a tick that ended in an error.
Wake_EndsAfterError ==
    /\ pc \in {"sleep", "err_sleep"}
    /\ MainStep
    /\ pc' = IF ~running \/ pc = "err_sleep" THEN "fin_shutdown"
             ELSE IF ReconnectDue THEN "reconnect"
             ELSE "zappi"
    /\ tickPrev' = [is_charging |-> is_charging,
                    manual_charge_enabled |-> manual_charge_enabled]
    /\ tickCmds' = << >>
    /\ zappi_charging' = FALSE
    /\ battery_power' = Unset
    /\ UNCHANGED << progVars, worldVars, issued, episode >>
    /\ prevTick' = TickSummary
    /\ tickLog' = [FreshLog EXCEPT !.reconnect =
                      IF running /\ ReconnectDue THEN "pending" ELSE "none"]
    /\ UNCHANGED sd
    /\ UNCHANGED lastOk

\* asyncio.sleep returns; `while self.running`, then the reconnect check.
Wake ==
    /\ pc \in {"sleep", "err_sleep"}
    /\ MainStep
    /\ pc' = IF ~running THEN "fin_shutdown"
             ELSE IF ReconnectDue THEN "reconnect"
             ELSE "zappi"
    /\ tickPrev' = [is_charging |-> is_charging,
                    manual_charge_enabled |-> manual_charge_enabled]
    /\ tickCmds' = << >>
    /\ zappi_charging' = FALSE
    /\ battery_power' = Unset
    /\ UNCHANGED << progVars, worldVars, issued, episode >>
    /\ prevTick' = TickSummary
    /\ tickLog' = [FreshLog EXCEPT !.reconnect =
                      IF running /\ ReconnectDue THEN "pending" ELSE "none"]
    /\ UNCHANGED sd
    /\ UNCHANGED lastOk

\* await self.connect() of the tick succeeds.
ReconnectOk ==
    /\ pc = "reconnect"
    /\ MainStep
    /\ last_connection_time' = now
    /\ pc' = "zappi"
    /\ UNCHANGED << is_charging, manual_charge_enabled, running,
                    charging_power >>
    /\ UNCHANGED << tickVars, worldVars, histVars >>
    /\ tickLog' = [tickLog EXCEPT !.reconnect = "ok"]
    /\ UNCHANGED << prevTick, sd >>
    /\ UNCHANGED lastOk

\* ReconnectFails with the clock reset by the failed attempt.
ReconnectFails_ResetsClock ==
    /\ pc = "reconnect"
    /\ MainStep
    /\ pc' = "err_sleep"
    /\ last_connection_time' = now
    /\ UNCHANGED << is_charging, manual_charge_enabled, running,
                    charging_power, tickVars, worldVars, histVars >>
    /\ tickLog' = [tickLog EXCEPT !.reconnect = "failed"]
    /\ UNCHANGED << prevTick, sd >>
    /\ UNCHANGED lastOk

\* await self.connect() of the tick raises: `except Exception` of the loop.
ReconnectFails ==
    /\ pc = "reconnect"
    /\ MainStep
    /\ pc' = "err_sleep"
    /\ UNCHANGED << progVars, tickVars, worldVars, histVars >>
    /\ tickLog' = [tickLog EXCEPT !.reconnect = "failed"]
    /\ UNCHANGED << prevTick, sd >>
    /\ UNCHANGED lastOk

\* zappi_charging = await self.get_zappi_charging_status()
ZappiRead ==
    /\ pc = "zappi"
    /\ MainStep
    /\ \E r \in ZappiReads :
          /\ zappi_charging' = get_zappi_charging_status(r)
          /\ tickLog' = [tickLog EXCEPT !.zappi = r.kind]
    /\ pc' = "battery"
    /\ UNCHANGED << progVars, battery_power, worldVars, histVars >>
    /\ UNCHANGED << prevTick, sd >>
    /\ UNCHANGED lastOk

\* StartAlreadyCharging claiming the override although none was issued.
StartAlreadyCharging_Owns ==
    /\ is_charging' = TRUE
    /\ manual_charge_enabled' = TRUE
    /\ episode' = [how |-> "external", pre |-> tickPrev]
    /\ pc' = "sleep"
    /\ UNCHANGED << tickCmds, issued >>

\* EV charging just started and the battery is already charging.
StartAlreadyCharging ==
    /\ is_charging' = TRUE
    /\ manual_charge_enabled' = FALSE
    /\ episode' = [how |-> "external", pre |-> tickPrev]
    /\ pc' = "sleep"
    /\ UNCHANGED << tickCmds, issued >>

\* EV charging just started and the battery is not charging: the enable
\* command is awaited.
StartEnable ==
    /\ IssueInTick(EnableCmd)
    /\ pc' = "cmd_start"
    /\ UNCHANGED << is_charging, manual_charge_enabled, episode >>

\* EV charging just stopped and the override is ours: the disable command
\* is awaited.
StopDisable ==
    /\ IssueInTick(DisableCmd)
    /\ pc' = "cmd_stop"
    /\ UNCHANGED << is_charging, manual_charge_enabled, episode >>

\* StopNotOwned sending the disable command all the same.
StopNotOwned_Disables ==
    /\ IssueInTick(DisableCmd)
    /\ pc' = "cmd_stop"
    /\ UNCHANGED << is_charging, manual_charge_enabled, episode >>

\* EV charging just stopped and the override is not ours.
StopNotOwned ==
    /\ is_charging' = FALSE
    /\ pc' = "sleep"
    /\ UNCHANGED << manual_charge_enabled, tickCmds, issued, episode >>

\* SteadyEnable that enables once and never retries an override it owns.
SteadyEnable_NoRetry ==
    IF manual_charge_enabled
    THEN /\ pc' = "sleep"
         /\ UNCHANGED << is_charging, manual_charge_enabled, tickCmds,
                         issued, episode >>
    ELSE /\ IssueInTick(EnableCmd)
         /\ pc' = "cmd_steady"
         /\ UNCHANGED << is_charging, manual_charge_enabled, episode >>

\* EV charging continues and the battery is not charging.
SteadyEnable ==
    /\ IssueInTick(EnableCmd)
    /\ pc' = "cmd_steady"
    /\ UNCHANGED << is_charging, manual_charge_enabled, episode >>

\* NoAction that takes a charging battery for a lost override.
NoAction_DropsOwnership ==
    /\ pc' = "sleep"
    /\ manual_charge_enabled' = FALSE
    /\ UNCHANGED << is_charging, tickCmds, issued, episode >>

\* EV charging continues with the battery charging, or no EV charging now
\* and before: logging only.
NoAction ==
    /\ pc' = "sleep"
    /\ UNCHANGED << is_charging, manual_charge_enabled, tickCmds, issued,
                    episode >>

\* The if/elif chain of monitor_loop on the tick's two readings.
Decide(zc, bp) ==
    CASE Branch(zc, is_charging) = "start" ->
            IF battery_already_charging(bp)
            THEN StartAlreadyCharging ELSE StartEnable
      [] Branch(zc, is_charging) = "stop" ->
            IF manual_charge_enabled THEN StopDisable ELSE StopNotOwned
      [] Branch(zc, is_charging) = "steady" ->
            IF battery_already_charging(bp) THEN NoAction ELSE SteadyEnable
      [] OTHER -> NoAction

\* battery_info = await self.get_battery_info(), then the decision up to the
\* next await: the command, or the sleep.
BatteryReadAndDecide ==
    /\ pc = "battery"
    /\ MainStep
    /\ \E r \in EnergyFlows :
          /\ ReadingPossible(r)
          /\ battery_power' = BatteryPowerOf(get_battery_info(r))
          /\ tickLog' = [tickLog EXCEPT !.battery = r.kind]
    /\ Decide(zappi_charging, battery_power')
    /\ UNCHANGED << running, last_connection_time, charging_power,
                    zappi_charging, worldVars, tickPrev >>
    /\ UNCHANGED << prevTick, sd >>
    /\ UNCHANGED lastOk

\* CmdStartOk without line 328: the EV is not marked as charging.
CmdStartOk_ForgetsCharging ==
    /\ pc = "cmd_start"
    /\ MainStep
    /\ CloudAfterSuccess(EnableCmd)
    /\ manual_charge_enabled' = TRUE
    /\ episode' = [how |-> "enabled", pre |-> tickPrev]
    /\ pc' = "sleep"
    /\ UNCHANGED << is_charging, running, last_connection_time,
                    charging_power, tickVars, now, otherCharging, tickPrev,
                    tickCmds, issued >>
    /\ UNCHANGED << logVars, sd >>
    /\ CommandReturned(EnableCmd)

\* The enable command of line 324 returns.
CmdStartOk ==
    /\ pc = "cmd_start"
    /\ MainStep
    /\ CloudAfterSuccess(EnableCmd)
    /\ is_charging' = TRUE
    /\ manual_charge_enabled' = TRUE
    /\ episode' = [how |-> "enabled", pre |-> tickPrev]
    /\ pc' = "sleep"
    /\ UNCHANGED << running, last_connection_time, charging_power, tickVars,
                    now, otherCharging, tickPrev, tickCmds, issued >>
    /\ UNCHANGED << logVars, sd >>
    /\ CommandReturned(EnableCmd)

\* CmdStopOk without line 344: the ownership flag is not cleared.
CmdStopOk_KeepsOwnership ==
    /\ pc = "cmd_stop"
    /\ MainStep
    /\ CloudAfterSuccess(DisableCmd)
    /\ is_charging' = FALSE
    /\ pc' = "sleep"
    /\ UNCHANGED << manual_charge_enabled, running, last_connection_time,
                    charging_power, tickVars, now, otherCharging, histVars >>
    /\ UNCHANGED << logVars, sd >>
    /\ CommandReturned(DisableCmd)

\* The disable command of line 341 returns.
CmdStopOk ==
    /\ pc = "cmd_stop"
    /\ MainStep
    /\ CloudAfterSuccess(DisableCmd)
    /\ manual_charge_enabled' = FALSE
    /\ is_charging' = FALSE
    /\ pc' = "sleep"
    /\ UNCHANGED << running, last_connection_time, charging_power, tickVars,
                    now, otherCharging, histVars >>
    /\ UNCHANGED << logVars, sd >>
    /\ CommandReturned(DisableCmd)

\* CmdSteadyOk that clears the ownership flag instead of setting it.
CmdSteadyOk_ClearsOwnership ==
    /\ pc = "cmd_steady"
    /\ MainStep
    /\ CloudAfterSuccess(EnableCmd)
    /\ manual_charge_enabled' = FALSE
    /\ pc' = "sleep"
    /\ UNCHANGED << is_charging, running, last_connection_time,
                    charging_power, tickVars, now, otherCharging, histVars >>
    /\ UNCHANGED << logVars, sd >>
    /\ CommandReturned(EnableCmd)

\* The enable command of line 374 returns.
CmdSteadyOk ==
    /\ pc = "cmd_steady"
    /\ MainStep
    /\ CloudAfterSuccess(EnableCmd)
    /\ manual_charge_enabled' = TRUE
    /\ pc' = "sleep"
    /\ UNCHANGED << is_charging, running, last_connection_time,
                    charging_power, tickVars, now, otherCharging, histVars >>
    /\ UNCHANGED << logVars, sd >>
    /\ CommandReturned(EnableCmd)

\* The command a tick awaits at pc.
PendingCmd == IF pc = "cmd_stop" THEN DisableCmd ELSE EnableCmd

\* CmdFails without the loop's `except Exception`: the error leaves
\* monitor_loop and run()'s finally clause runs.
CmdFails_EndsLoop ==
    /\ pc \in {"cmd_start", "cmd_stop", "cmd_steady"}
    /\ MainStep
    /\ CloudAfterAbort(PendingCmd)
    /\ pc' = "fin_shutdown"
    /\ UNCHANGED << progVars, tickVars, now, otherCharging, histVars >>
    /\ UNCHANGED << logVars, sd >>
    /\ UNCHANGED lastOk

\* CmdFails with the stop branch's bookkeeping done in a finally clause.
CmdFails_ClearsOnError ==
    /\ pc \in {"cmd_start", "cmd_stop", "cmd_steady"}
    /\ MainStep
    /\ CloudAfterAbort(PendingCmd)
    /\ pc' = "err_sleep"
    /\ manual_charge_enabled' =
          IF pc = "cmd_stop" THEN FALSE ELSE manual_charge_enabled
    /\ is_charging' = IF pc = "cmd_stop" THEN FALSE ELSE is_charging
    /\ UNCHANGED << running, last_connection_time, charging_power, tickVars,
                    now, otherCharging, histVars >>
    /\ UNCHANGED << logVars, sd >>
    /\ UNCHANGED lastOk

\* CmdFails with the command tried a second time before the error is
\* raised to the loop.
CmdFails_Retries ==
    /\ pc \in {"cmd_start", "cmd_stop", "cmd_steady"}
    /\ MainStep
    /\ CloudAfterAbort(PendingCmd)
    /\ IF Len(tickCmds) < 2
       THEN /\ IssueInTick(PendingCmd)
            /\ UNCHANGED pc
       ELSE /\ pc' = "err_sleep"
            /\ UNCHANGED << tickCmds, issued >>
    /\ UNCHANGED << progVars, tickVars, now, otherCharging, tickPrev,
                    episode >>
    /\ UNCHANGED << logVars, sd >>
    /\ UNCHANGED lastOk

\* set_instant_manual_charge raises: it re-raises, the assignments after the
\* await are skipped and `except Exception` of the loop sleeps.
CmdFails ==
    /\ pc \in {"cmd_start", "cmd_stop", "cmd_steady"}
    /\ MainStep
    /\ CloudAfterAbort(PendingCmd)
    /\ pc' = "err_sleep"
    /\ UNCHANGED << progVars, tickVars, now, otherCharging, histVars >>
    /\ UNCHANGED << logVars, sd >>
    /\ UNCHANGED lastOk

\* ------------------------------------------------------------ shutdown

\* The positions of the main task inside run()'s try block.
InTry ==
    {"connect", "reconnect", "zappi", "battery", "cmd_start", "cmd_stop",
     "cmd_steady", "sleep", "err_sleep"}

AwaitingCmd == {"cmd_start", "cmd_stop", "cmd_steady"}

\* The commands whose request is under way.
InFlight ==
    (IF pc \in AwaitingCmd THEN {PendingCmd} ELSE {})
        \cup (IF pc = "fin_cmd" \/ sigpc = "cmd" THEN {DisableCmd} ELSE {})

\* The awaits of the tasks are cut short (CancelledError, or the
\* KeyboardInterrupt of `except KeyboardInterrupt: break`): no assignment
\* after the await runs. In run()'s try block the main task enters the
\* finally clause; inside shutdown()'s command the error passes the
\* `except Exception` and ends shutdown(). A command under way may or may
\* not have reached the cloud.
TasksInterrupted ==
    /\ pc' = CASE pc \in InTry -> "fin_shutdown"
               [] pc = "fin_cmd" -> "done"
               [] OTHER -> pc
    /\ overrideActive' \in {overrideActive} \cup {c.enable : c \in InFlight}
    /\ UNCHANGED << progVars, tickVars, now, otherCharging, histVars >>
    /\ UNCHANGED logVars

\* run.py, SIGINT: asyncio.run cancels the main task (before Python 3.11
\* KeyboardInterrupt is raised instead, with the same effect on the task).
SigintRunPy ==
    /\ mode = "runpy"
    /\ loopPhase = "running"
    /\ pc \in InTry
    /\ TasksInterrupted
    /\ loopPhase' = "closing"
    /\ UNCHANGED << mode, sigpc >>
    /\ SignalSeen
    /\ UNCHANGED lastOk

\* run.py, SIGTERM: no handler is installed, the process is terminated.
SigtermRunPy ==
    /\ mode = "runpy"
    /\ loopPhase = "running"
    /\ pc \in InTry
    /\ pc' = "killed"
    /\ loopPhase' = "killed"
    /\ overrideActive' \in {overrideActive} \cup {c.enable : c \in InFlight}
    /\ UNCHANGED << progVars, tickVars, now, otherCharging, histVars,
                    mode, sigpc >>
    /\ SignalSeen
    /\ UNCHANGED lastOk
    /\ UNCHANGED logVars

\* battery_sitter.main, SIGINT or SIGTERM: signal_handler creates a task for
\* sitter.shutdown() and stops the loop, which ends after the iteration
\* under way.
SignalHandler ==
    /\ mode = "direct"
    /\ loopPhase = "running"
    /\ pc \in InTry
    /\ sigpc = "none"
    /\ sigpc' = "created"
    /\ loopPhase' = "stopping0"
    /\ UNCHANGED << progVars, pc, tickVars, worldVars, histVars, mode >>
    /\ SignalSeen
    /\ UNCHANGED lastOk
    /\ UNCHANGED logVars

\* The first step of the handler's shutdown task, when the stopping loop
\* still runs it: running is cleared and, when the override is ours, the
\* disable command is awaited; otherwise shutdown() runs to its end.
SigTaskFirstStep ==
    /\ sigpc = "created"
    /\ loopPhase \in {"stopping0", "stopping1"}
    /\ loopPhase' = "stopping1"
    /\ running' = FALSE
    /\ IF manual_charge_enabled
       THEN /\ issued' = IssuedRecord(DisableCmd, "sigtask")
            /\ sigpc' = "cmd"
       ELSE /\ sigpc' = "done"
            /\ UNCHANGED issued
    /\ UNCHANGED << is_charging, manual_charge_enabled,
                    last_connection_time, charging_power, pc, tickVars,
                    worldVars, mode, tickPrev, tickCmds, episode >>
    /\ ShutdownEntered
    /\ UNCHANGED lastOk
    /\ UNCHANGED logVars

\* The loop has stopped: run_until_complete raises, asyncio.run cancels the
\* tasks that are left and runs the loop until they end. The handler's task
\* ends without running, or inside its disable command, which may or may
\* not have reached the cloud; the main task enters run()'s finally clause.
CancelAll ==
    /\ loopPhase \in {"stopping0", "stopping1"}
    /\ loopPhase' = "closing"
    /\ sigpc' = IF sigpc = "done" THEN "done" ELSE "cancelled"
    /\ TasksInterrupted
    /\ UNCHANGED mode
    /\ UNCHANGED sd
    /\ UNCHANGED lastOk

\* shutdown() called from run()'s finally clause, up to its first await.
FinShutdown ==
    /\ pc = "fin_shutdown"
    /\ MainStep
    /\ running' = FALSE
    /\ IF manual_charge_enabled
       THEN /\ issued' = IssuedRecord(DisableCmd, "shutdown")
            /\ pc' = "fin_cmd"
       ELSE /\ pc' = "done"
            /\ UNCHANGED issued
    /\ UNCHANGED << is_charging, manual_charge_enabled,
                    last_connection_time, charging_power, tickVars,
                    worldVars, tickPrev, tickCmds, episode >>
    /\ ShutdownEntered
    /\ UNCHANGED lastOk
    /\ UNCHANGED logVars

\* The disable command of shutdown() returns; disconnect() only logs.
FinCmdOk ==
    /\ pc = "fin_cmd"
    /\ MainStep
    /\ CloudAfterSuccess(DisableCmd)
    /\ manual_charge_enabled' = FALSE
    /\ pc' = "done"
    /\ UNCHANGED << is_charging, running, last_connection_time,
                    charging_power, tickVars, now, otherCharging, histVars >>
    /\ UNCHANGED << logVars, sd >>
    /\ CommandReturned(DisableCmd)

\* FinCmdFails with the ownership dropped although the command raised.
FinCmdFails_ClearsOwnership ==
    /\ pc = "fin_cmd"
    /\ MainStep
    /\ CloudAfterAbort(DisableCmd)
    /\ manual_charge_enabled' = FALSE
    /\ pc' = "done"
    /\ UNCHANGED << is_charging, running, last_connection_time,
                    charging_power, tickVars, now, otherCharging, histVars >>
    /\ UNCHANGED << logVars, sd >>
    /\ UNCHANGED lastOk

\* The disable command of shutdown() raises: logged, shutdown goes on.
FinCmdFails ==
    /\ pc = "fin_cmd"
    /\ MainStep
    /\ CloudAfterAbort(DisableCmd)
    /\ pc' = "done"
    /\ UNCHANGED << progVars, tickVars, now, otherCharging, histVars >>
    /\ UNCHANGED << logVars, sd >>
    /\ UNCHANGED lastOk

\* ------------------------------------------------------------ the system

\* BatterySitter.__init__, then run() awaiting connect().
Init ==
    /\ is_charging = FALSE
    /\ manual_charge_enabled = FALSE
    /\ running = FALSE
    /\ last_connection_time = -1
    /\ charging_power \in ChargingPowers
    /\ pc = "connect"
    /\ zappi_charging = FALSE
    /\ battery_power = Unset
    /\ mode \in Modes
    /\ loopPhase = "running"
    /\ sigpc = "none"
    /\ now = 0
    /\ overrideActive = FALSE
    /\ otherCharging \in BOOLEAN
    /\ tickPrev = [is_charging |-> FALSE, manual_charge_enabled |-> FALSE]
    /\ tickCmds = << >>
    /\ issued = NoIssue
    /\ episode = [how |-> "none", pre |-> tickPrev]
    /\ tickLog = FreshLog
    /\ prevTick = NoTick
    /\ sd = [calls |-> 0, cmds |-> 0, sigOwned |-> "none"]
    /\ lastOk = "none"

Next ==
    \/ ConnectOk
    \/ ConnectFails
    \/ Wake
    \/ ReconnectOk
    \/ ReconnectFails
    \/ ZappiRead
    \/ BatteryReadAndDecide
    \/ CmdStartOk
    \/ CmdStopOk
    \/ CmdSteadyOk
    \/ CmdFails
    \/ SigintRunPy
    \/ SigtermRunPy
    \/ SignalHandler
    \/ SigTaskFirstStep
    \/ CancelAll
    \/ FinShutdown
    \/ FinCmdOk
    \/ FinCmdFails
    \/ OverrideLapses
    \/ OtherAgentToggles
    \/ TimePasses

Spec == Init /\ [][Next]_vars

\* A step of the main task up to the call of shutdown(). The event loop
\* resumes the task whenever what it awaits is done, so the task is not
\* left waiting for ever.
LoopTask ==
    \/ ConnectOk
    \/ ConnectFails
    \/ Wake
    \/ ReconnectOk
    \/ ReconnectFails
    \/ ZappiRead
    \/ BatteryReadAndDecide
    \/ CmdStartOk
    \/ CmdStopOk
    \/ CmdSteadyOk
    \/ CmdFails
    \/ FinShutdown

\* The services answer in the end: a reconnect or a command that is tried
\* again and again does not fail for ever.
ServicesAnswer ==
    /\ SF_vars(ReconnectOk)
    /\ SF_vars(CmdStartOk \/ CmdStopOk \/ CmdSteadyOk)

\* The program while no shutdown signal arrives.
LiveNext ==
    \/ LoopTask
    \/ OverrideLapses
    \/ OtherAgentToggles
    \/ TimePasses

LiveSpec == Init /\ [][LiveNext]_vars /\ WF_vars(LoopTask) /\ ServicesAnswer

\* ------------------------------------------------------------ properties

\* The tick under way, or the last one, has read both probes.
TickHasRead == battery_power # Unset

\* The tick's input, as the decision table of monitor_loop sees it.
TickStart == TickHasRead /\ zappi_charging /\ ~tickPrev.is_charging
TickStop == TickHasRead /\ ~zappi_charging /\ tickPrev.is_charging
TickSteady == TickHasRead /\ zappi_charging /\ tickPrev.is_charging
TickIdle == TickHasRead /\ ~zappi_charging /\ ~tickPrev.is_charging
TickBatteryCharging == battery_already_charging(battery_power)

\* The tick ended without an error and the loop sleeps.
TickEndedOk == pc = "sleep"

\* The tick ended, with or without an error.
TickEnded == pc \in {"sleep", "err_sleep"}

\* C1: in every reachable state, manual_charge_enabled is true only if
\* is_charging is true.
C1_OwnsOnlyWhileEvCharging == manual_charge_enabled => is_charging

\* The override is still owned after a shutdown whose disable command failed.
C1_Witness ==
    /\ pc = "done"
    /\ manual_charge_enabled
    /\ is_charging
    /\ issued.by = "shutdown"

\* C2: a disable command is issued, by a tick or by shutdown, only when
\* manual_charge_enabled is true at that moment, and a tick that finds EV
\* charging stopped without owning the override issues no command.
C2_DisableOnlyWhenOwned ==
    /\ (issued.by # "nobody" /\ ~issued.cmd.enable) => issued.owned
    /\ (TickStop /\ ~tickPrev.manual_charge_enabled) => tickCmds = << >>

\* A stop tick without ownership has ended, after an earlier disable.
C2_Witness ==
    /\ TickEndedOk
    /\ TickStop
    /\ ~tickPrev.manual_charge_enabled
    /\ ~issued.cmd.enable
    /\ issued.by = "tick"

\* C3: a tick that finds EV charging started with the battery not charging
\* issues exactly one enable command (30 minutes, configured power) and,
\* when the command succeeds, ends with is_charging and
\* manual_charge_enabled true.
C3_StartEnables ==
    (TickStart /\ ~TickBatteryCharging) =>
        /\ tickCmds = << [enable |-> TRUE, duration_minutes |-> 30,
                          power_kw |-> charging_power] >>
        /\ TickEndedOk => (is_charging /\ manual_charge_enabled)

C3_Witness ==
    /\ TickStart
    /\ ~TickBatteryCharging
    /\ TickEndedOk
    /\ manual_charge_enabled
    /\ charging_power = 3

\* C4: a tick that finds EV charging started with the battery already
\* charging issues no command and ends with is_charging true and
\* manual_charge_enabled false.
C4_StartLeavesForeignCharge ==
    (TickStart /\ TickBatteryCharging) =>
        /\ tickCmds = << >>
        /\ TickEndedOk => (is_charging /\ ~manual_charge_enabled)

C4_Witness ==
    /\ TickStart
    /\ TickBatteryCharging
    /\ TickEndedOk
    /\ is_charging
    /\ battery_power = PyVal("int", 500)

\* C5: a steady tick with the battery not charging issues the enable
\* command of the initial enable whether or not the override was owned, and
\* when it succeeds manual_charge_enabled is true and is_charging, the
\* rest of the carried state, is as before.
C5_SteadyReEnables ==
    (TickSteady /\ ~TickBatteryCharging) =>
        /\ tickCmds = << [enable |-> TRUE, duration_minutes |-> 30,
                          power_kw |-> charging_power] >>
        /\ TickEndedOk =>
              /\ manual_charge_enabled
              /\ is_charging = tickPrev.is_charging

\* The retry: the override was owned already and is enabled again.
C5_Witness ==
    /\ TickSteady
    /\ ~TickBatteryCharging
    /\ TickEndedOk
    /\ tickPrev.manual_charge_enabled
    /\ manual_charge_enabled

\* C6: a tick that finds EV charging stopped while owning the override
\* issues exactly one disable command (enable false, 0, 0) and, when it
\* succeeds, ends with manual_charge_enabled and is_charging false.
C6_StopDisables ==
    (TickStop /\ tickPrev.manual_charge_enabled) =>
        /\ tickCmds = << [enable |-> FALSE, duration_minutes |-> 0,
                          power_kw |-> 0] >>
        /\ TickEndedOk => (~manual_charge_enabled /\ ~is_charging)

C6_Witness ==
    /\ TickStop
    /\ tickPrev.manual_charge_enabled
    /\ TickEndedOk
    /\ ~manual_charge_enabled
    /\ ~is_charging

\* C7, as claimed: manual_charge_enabled is false at the end of every tick
\* that finds EV charging stopped, and of every tick that finds it started
\* with the battery already charging.
C7_ForcedFalse_Claimed ==
    (TickEnded /\ (TickStop \/ (TickStart /\ TickBatteryCharging)))
        => ~manual_charge_enabled

\* C7, amended: ... at the end of every such tick that ended without an
\* error.
C7_ForcedFalseWhenTickSucceeds ==
    (TickEndedOk /\ (TickStop \/ (TickStart /\ TickBatteryCharging)))
        => ~manual_charge_enabled

\* A stop tick that owned the override has ended without an error.
C7_Witness ==
    /\ TickEndedOk
    /\ TickStop
    /\ tickPrev.manual_charge_enabled
    /\ tickCmds # << >>
    /\ ~manual_charge_enabled

\* C8: a tick without a transition and without need of action (steady with
\* the battery charging, or idle) issues no command and leaves is_charging
\* and manual_charge_enabled as they were.
C8_NoActionTickIsFrame ==
    (TickEndedOk /\ ((TickSteady /\ TickBatteryCharging) \/ TickIdle)) =>
        /\ tickCmds = << >>
        /\ is_charging = tickPrev.is_charging
        /\ manual_charge_enabled = tickPrev.manual_charge_enabled

\* The steady case with the override owned.
C8_Witness ==
    /\ TickEndedOk
    /\ TickSteady
    /\ TickBatteryCharging
    /\ manual_charge_enabled
    /\ tickCmds = << >>

\* C9: no command, enable or disable, is issued by a tick or by shutdown
\* while the battery charges on another agent's account and not under an
\* override of this process.
C9_NeverClobbers == issued.by # "nobody" => ~issued.foreign

\* C10: from is_charging and manual_charge_enabled false, a start tick that
\* enables the override followed later by a stop tick, commands succeeding,
\* issues an enable then a disable and ends in the state before the start.
C10_RoundTrip ==
    (TickEndedOk /\ TickStop /\ episode.how = "enabled") =>
        /\ episode.pre =
              [is_charging |-> FALSE, manual_charge_enabled |-> FALSE]
        /\ tickCmds = << [enable |-> FALSE, duration_minutes |-> 0,
                          power_kw |-> 0] >>
        /\ issued.cmd = [enable |-> FALSE, duration_minutes |-> 0,
                         power_kw |-> 0]
        /\ [is_charging |-> is_charging,
            manual_charge_enabled |-> manual_charge_enabled] = episode.pre

C10_Witness ==
    /\ TickEndedOk
    /\ TickStop
    /\ episode.how = "enabled"
    /\ ~is_charging
    /\ ~manual_charge_enabled
    /\ ~overrideActive

\* The positions of the main task inside the while loop of monitor_loop.
LoopPcs ==
    {"reconnect", "zappi", "battery", "cmd_start", "cmd_stop", "cmd_steady",
     "sleep", "err_sleep"}

\* C11: no error raised inside a tick ends the loop: the main task leaves
\* the loop only once a signal has arrived, and from the sleep that follows
\* a failed tick it goes on to a new tick.
C11_ErrorsDoNotEndLoop ==
    [][ /\ (pc \in LoopPcs /\ pc' \notin LoopPcs) => sd'.sigOwned # "none"
        /\ (pc = "err_sleep" /\ pc' \in LoopPcs /\ pc' # pc) =>
              /\ pc' \in {"zappi", "reconnect"}
              /\ tickCmds' = << >>
              /\ tickLog'.zappi = "unread" ]_vars

\* A tick has run to its end after a tick that failed.
C11_Witness ==
    /\ prevTick.outcome \in {"cmd_failed", "reconnect_failed"}
    /\ pc = "sleep"
    /\ TickHasRead
    /\ loopPhase = "running"

\* C12: a tick whose command failed has issued it once and leaves
\* is_charging and manual_charge_enabled as they were before the tick, and
\* the next tick, on the same readings, issues the same command.
C12_FailedCommandIsRetriedNextTick ==
    /\ (pc = "err_sleep" /\ tickCmds # << >>) =>
          /\ Len(tickCmds) = 1
          /\ is_charging = tickPrev.is_charging
          /\ manual_charge_enabled = tickPrev.manual_charge_enabled
    /\ ( /\ prevTick.outcome = "cmd_failed"
         /\ TickHasRead
         /\ zappi_charging = prevTick.zappi_charging
         /\ TickBatteryCharging = prevTick.battery_charging )
          => tickCmds = prevTick.cmds

\* A disable command failed and the next tick has issued it again.
C12_Witness ==
    /\ prevTick.outcome = "cmd_failed"
    /\ prevTick.cmds = << [enable |-> FALSE, duration_minutes |-> 0,
                           power_kw |-> 0] >>
    /\ TickHasRead
    /\ ~zappi_charging
    /\ tickCmds = prevTick.cmds
    /\ pc = "cmd_stop"

\* C13: a failed read of the charger status never has a command, enable or
\* disable, issued in its tick, whatever the carried state.
C13_ReadErrorIssuesNoCommand == tickLog.zappi = "raise" => tickCmds = << >>

\* C14: when get_energy_flow() raises or returns None the tick goes on with
\* battery_power 'N/A', the battery counts as not charging, no error ends
\* the tick before its decision, and a tick that finds the EV charging
\* issues the enable command.
C14_TelemetryFailureTakesControl ==
    tickLog.battery \in {"raise", "None"} =>
        /\ battery_power = PyVal("str", 0)
        /\ ~TickBatteryCharging
        /\ pc = "err_sleep" => tickCmds # << >>
        /\ zappi_charging =>
              tickCmds = << [enable |-> TRUE, duration_minutes |-> 30,
                             power_kw |-> charging_power] >>

\* The telemetry call raised in a tick that found the EV charging, and the
\* tick enabled the override.
C14_Witness ==
    /\ tickLog.battery = "raise"
    /\ zappi_charging
    /\ pc = "sleep"
    /\ manual_charge_enabled
    /\ tickCmds # << >>

\* C15: battery_already_charging is true exactly when the reported power is
\* a number greater than zero, and false for every value that is not a
\* number: missing key, 'N/A', null, a string, a boolean.
C15_ChargingIffPositiveNumber ==
    TickHasRead =>
        (TickBatteryCharging <=>
            (battery_power.type \in {"int", "float"} /\ battery_power.num > 0))

\* C16: after a SIGINT or SIGTERM the process does not end before shutdown()
\* has run to its end, and when the override was ours at the moment of the
\* signal exactly one final disable command has been issued by then.
C16_SignalShutsDownGracefully ==
    sd.sigOwned # "none" =>
        /\ pc # "killed"
        /\ (pc = "done" /\ sd.sigOwned = "owned") => sd.cmds = 1

\* C17: shutdown() is entered at most once per process and issues at most
\* one final disable command.
C17_ShutdownRunsOnce == sd.calls <= 1 /\ sd.cmds <= 1

\* C18: a tick issues at most one override command, and only once its
\* charger status read and its battery telemetry read have both returned.
C18_OneCommandAfterBothReads ==
    /\ Len(tickCmds) <= 1
    /\ tickCmds # << >> =>
          /\ tickLog.zappi # "unread"
          /\ tickLog.battery # "unread"

\* A tick awaits its one command after reading both probes.
C18_Witness ==
    /\ pc \in AwaitingCmd
    /\ Len(tickCmds) = 1
    /\ tickLog.zappi = "ok"
    /\ tickLog.battery = "dict"

\* C19: a tick starts with the reconnect exactly when reconnect_interval or
\* more has passed since the last successful connect(); the reconnect comes
\* before both probes of the tick, and when it succeeds
\* last_connection_time is the current time.
C19_ReconnectIffIntervalElapsed ==
    [][ /\ (pc \in {"connect", "sleep", "err_sleep"}
              /\ pc' \in {"reconnect", "zappi"}) =>
              /\ pc' = "reconnect" <=>
                    now' - last_connection_time' >= reconnect_interval
              /\ tickLog'.zappi = "unread"
              /\ tickLog'.battery = "unread"
        /\ pc' = "reconnect" =>
              /\ tickLog'.zappi = "unread"
              /\ tickLog'.battery = "unread"
        /\ (pc = "reconnect" /\ pc' = "zappi") =>
              /\ last_connection_time' = now'
              /\ tickLog'.zappi = "unread"
              /\ tickLog'.battery = "unread" ]_vars

\* A tick that reconnected reads the charger next, with the clock reset.
C19_Witness ==
    /\ pc = "zappi"
    /\ tickLog.reconnect = "ok"
    /\ now >= reconnect_interval
    /\ last_connection_time = now

\* C20: a failing reconnect ends the tick in the loop's except clause with
\* last_connection_time, is_charging and manual_charge_enabled as they
\* were, no probe called and no command issued; the loop goes on, and the
\* tick after a failed reconnect starts with the reconnect again.
C20_FailedReconnectIsRetried ==
    [][ /\ (pc = "reconnect" /\ pc' # pc /\ sd'.sigOwned = "none") =>
              pc' \in {"zappi", "err_sleep"}
        /\ (pc = "reconnect" /\ pc' = "err_sleep") =>
              /\ last_connection_time' = last_connection_time
              /\ is_charging' = is_charging
              /\ manual_charge_enabled' = manual_charge_enabled
              /\ tickLog'.reconnect = "failed"
              /\ tickLog'.zappi = "unread"
              /\ tickLog'.battery = "unread"
              /\ tickCmds' = << >>
        /\ (pc = "err_sleep" /\ tickLog.reconnect = "failed"
              /\ pc' \in LoopPcs /\ pc' # pc) =>
              /\ pc' = "reconnect"
              /\ last_connection_time' = last_connection_time ]_vars

\* The reconnect failed in one tick and succeeded in the next.
C20_Witness ==
    /\ prevTick.outcome = "reconnect_failed"
    /\ tickLog.reconnect = "ok"
    /\ last_connection_time = now
    /\ pc = "zappi"

\* C21: manual_charge_enabled is true exactly when a command of this
\* process has returned and the last one that returned was an enable; so it
\* turns true only when an enable returns and false only when a disable
\* returns, also while the tasks of a shutdown and of a tick overlap.
C21_OwnershipIsLastReturnedCommand ==
    manual_charge_enabled <=> lastOk = "enable"

\* shutdown() has run in the handler's task while the tick awaits a
\* command, after an earlier command of this process had returned.
C21_Witness ==
    /\ pc \in AwaitingCmd
    /\ sigpc \in {"cmd", "done"}
    /\ lastOk # "none"

\* The tick under way has found the EV not charging while the override is
\* ours, and awaits the disable command.
StopPending == pc = "cmd_stop"

\* The override is released and the episode is over.
Released == ~manual_charge_enabled /\ ~is_charging

\* The tick under way has found the EV charging.
EvSeenCharging == TickHasRead /\ zappi_charging

\* The tick under way has found the EV charging and the battery not, and
\* awaits the enable command.
EnablePending == pc \in {"cmd_start", "cmd_steady"}

\* The tick under way has found the EV not charging, or the battery
\* charging.
EnableNotCalledFor ==
    TickHasRead /\ (~zappi_charging \/ TickBatteryCharging)

\* The tick before this one issued cmd and the command failed.
RetryOf(cmd) ==
    /\ TickEnded
    /\ prevTick.outcome = "cmd_failed"
    /\ prevTick.cmds = << cmd >>

\* C22 as claimed: after a disable that failed, every tick re-issues the
\* disable unless it finds the EV charging; after an enable that failed,
\* every tick re-issues the enable unless it finds the EV not charging or
\* the battery charging.
C22_EveryTickReissues ==
    /\ (RetryOf(DisableCmd) /\ ~EvSeenCharging) =>
          tickCmds = << DisableCmd >>
    /\ (RetryOf(EnableCmd) /\ ~EnableNotCalledFor) =>
          tickCmds = << EnableCmd >>

\* C22: while no shutdown signal arrives, after a command that failed
\* every tick that reaches its probes re-issues it as long as the readings
\* call for it; and if a reconnect or a command that is tried again and
\* again succeeds in the end, a pending disable leads to
\* manual_charge_enabled and is_charging both false unless the EV is found
\* charging again, and a pending enable leads to manual_charge_enabled
\* unless the EV is found not charging or the battery charging.
C22_RetriedUntilSuccess ==
    /\ []((RetryOf(DisableCmd) /\ TickHasRead /\ ~EvSeenCharging) =>
            tickCmds = << DisableCmd >>)
    /\ []((RetryOf(EnableCmd) /\ TickHasRead /\ ~EnableNotCalledFor) =>
            tickCmds = << EnableCmd >>)
    /\ StopPending ~> (Released \/ EvSeenCharging)
    /\ EnablePending ~> (manual_charge_enabled \/ EnableNotCalledFor)

\* A disable that failed in one tick was issued again in the next and
\* returned.
C22_Witness ==
    /\ RetryOf(DisableCmd)
    /\ pc = "sleep"
    /\ tickCmds = << DisableCmd >>
    /\ Released
====
